---- MODULE Spec2Model ----
(***************************************************************************)
(* The device dashboard of assets/components/devices.js: the DeviceList    *)
(* element, the @lit/task Task it owns (_deviceListTask), its 5000 ms poll *)
(* timer and its command dispatch.                                         *)
(*                                                                         *)
(* The host is a single threaded event loop.  One action of the model is   *)
(* one task of that loop together with the microtasks it queues: a Task    *)
(* run() calls requestUpdate(), and the element's update (hostUpdate of    *)
(* the controller, then render()) runs in the microtask checkpoint that    *)
(* ends the same task.  The one update that can be outstanding across      *)
(* callbacks is the element's first one: it is queued by the constructor   *)
(* and released by the first connectedCallback (enableUpdating), and the   *)
(* script that attached the element may detach it again before the         *)
(* microtask runs.                                                         *)
(*                                                                         *)
(* Time is the host clock in milliseconds; it advances in steps of         *)
(* ClockStepMs and an interval that is due fires before time moves on.     *)
(***************************************************************************)
EXTENDS Integers, Sequences, FiniteSets, TLC

\* ---------------------------------------------------------------- bounds
MaxClockSteps == 10   \* the clock runs from 0 to MaxClockSteps * ClockStepMs
MaxIntervals == 2     \* number of setInterval calls explored
MaxCommands == 1      \* number of command requests explored
MaxCmdCommands == 2   \* number of command requests explored by CmdSpec
MaxCmdClockSteps == 5 \* the clock of CmdSpec runs to MaxCmdClockSteps * ClockStepMs
MaxServerCommands == 1 \* number of command requests explored by ServerSpec
MaxLabelIntervals == 3   \* number of setInterval calls of the labels explored
MaxLabelClockSteps == 8  \* the label clock runs to MaxLabelClockSteps * LabelClockStepMs
MaxRowClockSteps == 6    \* the clock of RowSpec runs to MaxRowClockSteps * ClockStepMs
MaxPairClockSteps == 2   \* the clock of PairSpec runs to MaxPairClockSteps * PairClockStepMs

\* ------------------------------------------------------- program constants
PollIntervalMs == 5000   \* the period of the poll interval
ClockStepMs == 1000      \* the clock step: the shortest period of the program, the label's
LabelIntervalMs == 1000  \* the period of a label's refresh interval

\* ------------------------------------------------------------------ data
\* item.state: absent (the other fields are then never read), or the power
\* state, the colour r, g, b and the time of the last update in ms.
NoState == [present |-> FALSE, on |-> FALSE, color |-> <<0, 0, 0>>, updated |-> 0]
ColoredState(on, rgb, updated) ==
  [present |-> TRUE, on |-> on, color |-> rgb, updated |-> updated]
StateOf(on) == ColoredState(on, <<51, 102, 204>>, 0)
Device(id, st) == [id |-> id, state |-> st]

\* The payloads the list endpoint answers with in this model.
Payloads ==
  { <<>>,
    << Device("abc", StateOf(TRUE)) >>,
    << Device("abc", StateOf(FALSE)), Device("def", NoState) >> }

HttpStatuses == {200, 404, 500}

\* The timeAgo bindings of the page this model follows.
LabelIds == {1}

\* An optional value: JavaScript undefined, or a defined value.
Undefined == [defined |-> FALSE, v |-> <<>>]
Some(x) == [defined |-> TRUE, v |-> x]

NoError == [defined |-> FALSE, name |-> "", message |-> <<>>]
ErrorOf(name, message) == [defined |-> TRUE, name |-> name, message |-> message]

\* String(n) for a non negative integer, as the sequence of its decimal digits.
DigitChar(d) == <<"0", "1", "2", "3", "4", "5", "6", "7", "8", "9">>[d + 1]
RECURSIVE NumberToString(_)
NumberToString(n) ==
  IF n < 10 THEN << DigitChar(n) >>
  ELSE NumberToString(n \div 10) \o << DigitChar(n % 10) >>

\* ------------------------------------------------- numbers and strings
LowerHex == <<"0", "1", "2", "3", "4", "5", "6", "7", "8", "9", "a", "b", "c", "d", "e", "f">>
UpperHex == <<"0", "1", "2", "3", "4", "5", "6", "7", "8", "9", "A", "B", "C", "D", "E", "F">>

\* ToInt32 of a value that may be undefined: undefined converts to 0. The
\* integers TLC computes with are the 32-bit integers, so a defined integer
\* converts to itself.
ToInt32(x) == IF x.defined THEN x.v ELSE 0

\* x << n on 32-bit integers, for the operands that do not shift a set bit
\* out: a colour channel of at most 15 bits shifted by at most 16.
ShiftLeft(x, n) == x * (2 ^ n)

\* a | b, bit by bit, for non negative a and b.
RECURSIVE BitOr(_, _)
BitOr(a, b) ==
  IF a = 0 THEN b
  ELSE IF b = 0 THEN a
  ELSE 2 * BitOr(a \div 2, b \div 2) + (IF a % 2 = 1 \/ b % 2 = 1 THEN 1 ELSE 0)

\* Number.prototype.toString(16).
RECURSIVE toString16(_)
toString16(n) ==
  IF n < 0 THEN <<"-">> \o toString16(0 - n)
  ELSE IF n < 16 THEN << LowerHex[n + 1] >>
  ELSE toString16(n \div 16) \o << LowerHex[(n % 16) + 1] >>

\* A padStart() that pads nothing.
PadNothing(str, n, c) == str

\* String.prototype.padStart(n, c) for a one character c.
padStart(str, n, c) ==
  IF Len(str) >= n THEN str ELSE [i \in 1..(n - Len(str)) |-> c] \o str

\* ------------------------------------------------------------- rendering
NothingRendered == [kind |-> "none", rows |-> <<>>]     \* before the first update
Blank == [kind |-> "blank", rows |-> <<>>]              \* render() returned undefined
Loading == [kind |-> "loading", rows |-> <<>>]          \* <p>Loading devices...</p>
Table(rows) == [kind |-> "table", rows |-> rows]

\* item.state?.color.r and the like: undefined when the state is absent.
Channel(item, k) ==
  IF item.state.present
  THEN [defined |-> TRUE, v |-> item.state.color[k]]
  ELSE [defined |-> FALSE, v |-> <<>>]

\* (r << 16) | (g << 8) | b
color_value(item) ==
  BitOr(BitOr(ShiftLeft(ToInt32(Channel(item, 1)), 16),
              ShiftLeft(ToInt32(Channel(item, 2)), 8)),
        ToInt32(Channel(item, 3)))

\* `#${color_value.toString(16).padStart(6, '0')}`
rgb_hex(item) == <<"#">> \o padStart(toString16(color_value(item)), 6, "0")

\* One row. The power switch has a checked binding (?checked=${item.state?.on})
\* and no disabled attribute; the colour picker's value is rgb_hex; the
\* "updated" cell holds a timeAgo binding of the state's time, or nothing.
_render_item(item) ==
  [ id |-> item.id,
    checked |-> item.state.present /\ item.state.on,
    disabled |-> FALSE,
    color |-> rgb_hex(item),
    updated |-> IF item.state.present
                THEN [defined |-> TRUE, v |-> item.state.updated]
                ELSE [defined |-> FALSE, v |-> <<>>],
    source |-> item.state.present ]

_render_device_list(devices) ==
  Table([i \in 1..Len(devices) |-> _render_item(devices[i])])

\* render() with the complete renderer patching the held list instead of
\* replacing it: rows of the held list that the new payload lacks stay.
RenderPatching(st, val, dl) ==
  IF st = "PENDING"
  THEN [ out |-> IF dl.defined THEN _render_device_list(dl.v) ELSE Loading,
         deviceList |-> dl ]
  ELSE IF st = "COMPLETE"
  THEN LET kept == SelectSeq(dl.v, LAMBDA d : \A i \in 1..Len(val.v) : val.v[i].id # d.id)
           merged == val.v \o kept
       IN [ out |-> _render_device_list(merged), deviceList |-> Some(merged) ]
  ELSE [ out |-> Blank, deviceList |-> dl ]

\* render() with a pending renderer that always shows the placeholder.
RenderLoadingWhilePending(st, val, dl) ==
  IF st = "PENDING"
  THEN [ out |-> Loading, deviceList |-> dl ]
  ELSE IF st = "COMPLETE"
  THEN [ out |-> _render_device_list(val.v), deviceList |-> Some(val.v) ]
  ELSE [ out |-> Blank, deviceList |-> dl ]

\* A render() that keeps the first snapshot it was given.
RenderFirstSnapshotOnly(st, val, dl) ==
  IF st = "PENDING"
  THEN [ out |-> IF dl.defined THEN _render_device_list(dl.v) ELSE Loading,
         deviceList |-> dl ]
  ELSE IF st = "COMPLETE"
  THEN [ out |-> _render_device_list(IF dl.defined THEN dl.v ELSE val.v),
         deviceList |-> IF dl.defined THEN dl ELSE Some(val.v) ]
  ELSE [ out |-> Blank, deviceList |-> dl ]

\* A render() that forgets the held list when the task is in error.
RenderForgetsOnError(st, val, dl) ==
  IF st = "PENDING"
  THEN [ out |-> IF dl.defined THEN _render_device_list(dl.v) ELSE Loading,
         deviceList |-> dl ]
  ELSE IF st = "COMPLETE"
  THEN [ out |-> _render_device_list(val.v), deviceList |-> Some(val.v) ]
  ELSE [ out |-> Blank, deviceList |-> Undefined ]

\* DeviceList.render(): Task.render dispatches on the status to the renderer
\* given for it; the element gives renderers for pending and complete only.
\* The result is what is rendered and the deviceList field afterwards.
render(st, val, dl) ==
  IF st = "PENDING"
  THEN [ out |-> IF dl.defined THEN _render_device_list(dl.v) ELSE Loading,
         deviceList |-> dl ]
  ELSE IF st = "COMPLETE"
  THEN [ out |-> _render_device_list(val.v), deviceList |-> Some(val.v) ]
  ELSE [ out |-> Blank, deviceList |-> dl ]

\* ------------------------------------------------------- the fetch task
\* What a fetch of /api/devices can end with.
Response(http, body) == [kind |-> "response", http |-> http, body |-> body]
NetworkError == [kind |-> "neterr", http |-> 0, body |-> <<>>]
Aborted == [kind |-> "abort", http |-> 0, body |-> <<>>]

\* The task function without the response.ok check.
OkUnchecked(http) == TRUE

ok(http) == http \in 200..299

\* The task function: the outcome of the fetch to the result or the error of
\* the run.
task(o) ==
  IF o.kind = "response"
  THEN IF ~ok(o.http)
       THEN [errored |-> TRUE, result |-> Undefined,
             error |-> ErrorOf("Error", NumberToString(o.http))]
       ELSE [errored |-> FALSE, result |-> Some(o.body), error |-> NoError]
  ELSE IF o.kind = "abort"
  THEN [errored |-> TRUE, result |-> Undefined, error |-> ErrorOf("AbortError", <<>>)]
  ELSE [errored |-> TRUE, result |-> Undefined, error |-> ErrorOf("TypeError", <<>>)]

\* args: () => [] and the Task's default argsEqual (shallow array equality).
args == <<>>

\* Arrays compared by identity: a fresh [] never equals the previous one.
ArgsIdentical(prev, cur) == FALSE

argsEqual(prev, cur) ==
  Len(prev) = Len(cur) /\ \A i \in 1..Len(prev) : prev[i] = cur[i]

VARIABLES
  now,            \* host clock, ms
  isConnected,    \* the element is attached
  updateState,    \* "blocked" before the first connect, "pending" first update queued, "done"
  timer,          \* DeviceList.timer: an interval handle, 0 for undefined
  intervals,      \* the host's live intervals of this element: [id, due]
  handles,        \* interval handles handed out so far
  status,         \* Task.status
  callId,         \* Task._callId
  previousArgs,   \* Task._previousArgs
  value,          \* Task._value
  error,          \* Task._error
  inflight,       \* list fetches started and not settled: [key, aborted, orphaned]
  deviceList,     \* DeviceList.deviceList
  rendered,       \* what the element shows
  commands,       \* command requests sent, in order
  lastEvent,      \* history: the handler that ran last, where a claim tells it apart
  lastGood,       \* history: the payload of the last run that ended complete
  prevGood,       \* history: the payload of the complete run before that one
  failures,       \* history: runs ended in error since the last complete one
  recoveredFrom,  \* history: the value of failures when the last run ended complete
  mountedAt,      \* history: clock of the last change from detached to attached
  fetchesSinceMount, \* history: list fetches started since then
  labels,         \* per timeAgo directive: created, isConnected, time, timer, shown
  labelIntervals, \* live intervals of the labels: id, owner, due
  labelHandles,   \* interval handles the labels have taken so far
  labelHist,      \* history per label: ticks, attachedAt, shownAt, detachedAt, ...
  commandBudget,  \* interactions with the controls the user still makes
  outstanding,    \* indexes in commands of the requests that have not completed
  interaction,    \* history: the last interaction with a control
  server,         \* the devices as the backend holds them
  applied,        \* indexes in commands of the requests the backend has carried out
  answers,        \* the bodies the backend has answered list fetches with, by call id
  serverHistory,  \* history: the states of the backend after each command, in order
  other           \* the fields of a second gv-device-list element of the page

taskVars == <<status, callId, previousArgs, value, error, inflight>>
timerVars == <<timer, intervals, handles>>
serverVars == <<server, applied, answers, serverHistory>>
cmdVars == <<commandBudget, outstanding, interaction>>
labelVars == <<labels, labelIntervals, labelHandles, labelHist>>
histVars == <<lastGood, prevGood, failures, recoveredFrom, mountedAt, fetchesSinceMount>>
vars == <<now, isConnected, updateState, timer, intervals, handles, status, callId,
          previousArgs, value, error, inflight, deviceList, rendered, commands,
          lastEvent, lastGood, prevGood, failures, recoveredFrom, mountedAt,
          fetchesSinceMount, labels, labelIntervals, labelHandles, labelHist,
          commandBudget, outstanding, interaction, server, applied, answers,
          serverHistory, other>>

Event(type, key, kind, http) == [type |-> type, key |-> key, kind |-> kind, http |-> http]

NoInteraction == [kind |-> "none", id |-> "", checked |-> FALSE, rgb |-> <<0, 0, 0>>, n |-> 0]

\* The fields of an element after construction, and the intervals of the host
\* whose callback is bound to it.
NewInstance ==
  [ isConnected |-> FALSE, updateState |-> "blocked", timer |-> 0, intervals |-> {},
    status |-> "INITIAL", callId |-> 0, previousArgs |-> Undefined, value |-> Undefined,
    error |-> NoError, inflight |-> {}, deviceList |-> Undefined,
    rendered |-> NothingRendered, lastGood |-> Undefined, prevGood |-> Undefined,
    failures |-> 0, recoveredFrom |-> 0, mountedAt |-> 0, fetchesSinceMount |-> 0 ]

\* The state after construction, with the number of interactions the user
\* makes, the devices the backend holds and the timeAgo bindings followed.
StartWith(budget, devices, ids) ==
  /\ now = 0
  /\ isConnected = FALSE
  /\ updateState = "blocked"
  /\ timer = 0
  /\ intervals = {}
  /\ handles = 0
  /\ status = "INITIAL"
  /\ callId = 0
  /\ previousArgs = Undefined
  /\ value = Undefined
  /\ error = NoError
  /\ inflight = {}
  /\ deviceList = Undefined
  /\ rendered = NothingRendered
  /\ commands = <<>>
  /\ lastEvent = Event("init", 0, "", 0)
  /\ lastGood = Undefined
  /\ prevGood = Undefined
  /\ failures = 0
  /\ recoveredFrom = 0
  /\ mountedAt = 0
  /\ fetchesSinceMount = 0
  /\ labels = [l \in ids |->
                 [created |-> FALSE, isConnected |-> FALSE, time |-> Undefined, timer |-> 0,
                  shown |-> Undefined]]
  /\ labelIntervals = {}
  /\ labelHandles = 0
  /\ labelHist = [l \in ids |->
                    [ticks |-> 0, attachedAt |-> 0, shownAt |-> 0, detachedAt |-> 0,
                     detachedFor |-> 0, reattached |-> FALSE]]
  /\ commandBudget = budget
  /\ outstanding = {}
  /\ interaction = NoInteraction
  /\ server = devices
  /\ applied = {}
  /\ answers = {}
  /\ serverHistory = <<>>
  /\ other = NewInstance

\* The dashboard alone: the timeAgo bindings of its rows are not followed.
Start(budget) ==
  StartWith(budget, << Device("abc", StateOf(FALSE)), Device("def", NoState) >>, {})

Init == Start(MaxCommands)

\* A run() that does nothing once the task has ended in error.
RunUnlessErrored ==
  IF status = "ERROR"
  THEN UNCHANGED <<inflight, status, callId, previousArgs, value, error, fetchesSinceMount>>
  ELSE /\ inflight' =
            { IF status = "PENDING" /\ f.key = callId THEN [f EXCEPT !.aborted = TRUE] ELSE f
                : f \in inflight }
            \cup { [key |-> callId + 1, aborted |-> FALSE, orphaned |-> FALSE] }
       /\ status' = "PENDING"
       /\ callId' = callId + 1
       /\ previousArgs' = Some(args)
       /\ fetchesSinceMount' = fetchesSinceMount + 1
       /\ UNCHANGED <<value, error>>

\* A run() that leaves the controller of the pending run alone.
RunWithoutAbort ==
  /\ inflight' = inflight \cup { [key |-> callId + 1, aborted |-> FALSE, orphaned |-> FALSE] }
  /\ status' = "PENDING"
  /\ callId' = callId + 1
  /\ previousArgs' = Some(args)
  /\ fetchesSinceMount' = fetchesSinceMount + 1
  /\ UNCHANGED <<value, error>>

\* ------------------------------------------- the labels of the rows
\* The timeAgo directives of the "updated" cells (assets/components/timeago.js)
\* as the element's renders and lifecycle callbacks drive them.  The label
\* of row l is labels[l]; S is the labels, their intervals, the handles
\* taken and the history, as a record, so that one commit can act on
\* several labels in turn.
NewLabel ==
  [created |-> FALSE, isConnected |-> FALSE, time |-> Undefined, timer |-> 0,
   shown |-> Undefined]

NewLabelHist ==
  [ticks |-> 0, attachedAt |-> 0, shownAt |-> 0, detachedAt |-> 0,
   detachedFor |-> 0, reattached |-> FALSE]

LabelPart ==
  [labels |-> labels, intervals |-> labelIntervals, handles |-> labelHandles,
   hist |-> labelHist]

\* An ensureTimerStarted() that arms an interval whether or not one is held.
RowTimerStartedUnguarded(S, l) ==
  [S EXCEPT !.labels[l].timer = S.handles + 1,
            !.intervals = @ \cup { [id |-> S.handles + 1, owner |-> l,
                                    due |-> now + LabelIntervalMs] },
            !.handles = @ + 1]

\* ensureTimerStarted() of the label of row l.
rowTimerStarted(S, l) ==
  IF S.labels[l].timer = 0
  THEN [S EXCEPT !.labels[l].timer = S.handles + 1,
                 !.intervals = @ \cup { [id |-> S.handles + 1, owner |-> l,
                                         due |-> now + LabelIntervalMs] },
                 !.handles = @ + 1]
  ELSE S

\* ensureTimerStopped() of the label of row l.
rowTimerStopped(S, l) ==
  [S EXCEPT !.labels[l].timer = 0,
            !.intervals = { i \in @ : i.id # S.labels[l].timer }]

\* The binding of row l is rendered with the time t: Lit creates the
\* directive if the cell had none (connected as the part is), then update().
rowLabelUpdated(S, l, t, partConnected) ==
  LET old == S.labels[l]
      conn == IF old.created THEN old.isConnected ELSE partConnected
      S1 == [S EXCEPT !.labels[l] = [old EXCEPT !.created = TRUE, !.isConnected = conn,
                                                !.time = Some((t)),
                                                !.shown = Some((now - t) \div 1000)],
                      !.hist[l].shownAt = now,
                      !.hist[l].attachedAt = IF old.created THEN @ ELSE now]
  IN IF conn THEN rowTimerStarted(S1, l) ELSE S1

\* A removal that drops the directive without calling disconnected().
RowLabelDropped(S, l) ==
  [S EXCEPT !.labels[l] = NewLabel, !.hist[l] = NewLabelHist]

\* The cell of row l no longer holds the binding: Lit clears the part, which
\* calls disconnected() if the directive was connected, and drops the directive.
rowLabelRemoved(S, l) ==
  LET S1 == IF S.labels[l].isConnected THEN rowTimerStopped(S, l) ELSE S
  IN [S1 EXCEPT !.labels[l] = NewLabel, !.hist[l] = NewLabelHist]

\* setConnected(c) of the element's root part reaches the directive of row l:
\* reconnected() or disconnected() if its connection changes.
rowLabelSetConnected(S, l, c) ==
  IF ~S.labels[l].created \/ S.labels[l].isConnected = c THEN S
  ELSE IF c
  THEN rowTimerStarted([S EXCEPT !.labels[l].isConnected = TRUE,
                                 !.hist[l].attachedAt = now, !.hist[l].ticks = 0,
                                 !.hist[l].reattached = TRUE,
                                 !.hist[l].detachedFor = now - S.hist[l].detachedAt], l)
  ELSE rowTimerStopped([S EXCEPT !.labels[l].isConnected = FALSE,
                                 !.hist[l].detachedAt = now], l)

\* The "updated" cell of row l of the output holds a timeAgo binding.
HasBinding(out, l) ==
  out.kind = "table" /\ l <= Len(out.rows) /\ out.rows[l].updated.defined

rowCommitted(S, l, out, partConnected) ==
  IF HasBinding(out, l) THEN rowLabelUpdated(S, l, out.rows[l].updated.v, partConnected)
  ELSE IF S.labels[l].created THEN rowLabelRemoved(S, l)
  ELSE S

\* The rows in document order, from row l on.
RECURSIVE rowsCommitted(_, _, _, _)
rowsCommitted(S, l, out, partConnected) ==
  IF l \notin DOMAIN S.labels THEN S
  ELSE rowsCommitted(rowCommitted(S, l, out, partConnected), l + 1, out, partConnected)

RECURSIVE rowsSetConnected(_, _, _)
rowsSetConnected(S, l, c) ==
  IF l \notin DOMAIN S.labels THEN S
  ELSE rowsSetConnected(rowLabelSetConnected(S, l, c), l + 1, c)

LabelsBecome(S) ==
  /\ labels' = S.labels
  /\ labelIntervals' = S.intervals
  /\ labelHandles' = S.handles
  /\ labelHist' = S.hist

\* The commit of what render() returned, as far as the labels go.
commitLabels == LabelsBecome(rowsCommitted(LabelPart, 1, rendered', isConnected))

\* LitElement.connectedCallback / disconnectedCallback: setConnected on the
\* root part once the element has rendered.
labelsSetConnected(c) == LabelsBecome(rowsSetConnected(LabelPart, 1, c))

\* A run() that aborts the fetch it supersedes only after a later run.
RunAbortsLate ==
  /\ inflight' =
       { IF f.key < callId THEN [f EXCEPT !.aborted = TRUE] ELSE f : f \in inflight }
       \cup { [key |-> callId + 1, aborted |-> FALSE, orphaned |-> FALSE] }
  /\ status' = "PENDING"
  /\ callId' = callId + 1
  /\ previousArgs' = Some(args)
  /\ fetchesSinceMount' = fetchesSinceMount + 1
  /\ UNCHANGED <<value, error>>

\* A run() that does nothing while an earlier run is still pending.
RunUnlessPending ==
  IF status = "PENDING"
  THEN UNCHANGED <<inflight, status, callId, previousArgs, value, error, fetchesSinceMount>>
  ELSE /\ inflight' = inflight \cup { [key |-> callId + 1, aborted |-> FALSE, orphaned |-> FALSE] }
       /\ status' = "PENDING"
       /\ callId' = callId + 1
       /\ previousArgs' = Some(args)
       /\ fetchesSinceMount' = fetchesSinceMount + 1
       /\ UNCHANGED <<value, error>>

\* ------------------------------------------------------------- Task.run
\* A run() that starts the fetch but leaves a task in error in error.
RunStaysInError ==
  /\ inflight' =
       { IF status = "PENDING" /\ f.key = callId THEN [f EXCEPT !.aborted = TRUE] ELSE f
           : f \in inflight }
       \cup { [key |-> callId + 1, aborted |-> FALSE, orphaned |-> FALSE] }
  /\ status' = IF status = "ERROR" THEN "ERROR" ELSE "PENDING"
  /\ callId' = callId + 1
  /\ previousArgs' = Some(args)
  /\ fetchesSinceMount' = fetchesSinceMount + 1
  /\ UNCHANGED <<value, error>>

\* Task.run(): abort the controller of a run that is still pending, enter
\* PENDING, take the next call id and call the task function, which starts
\* the fetch with the new controller's signal.
run ==
  /\ inflight' =
       { IF status = "PENDING" /\ f.key = callId THEN [f EXCEPT !.aborted = TRUE] ELSE f
           : f \in inflight }
       \cup { [key |-> callId + 1, aborted |-> FALSE, orphaned |-> FALSE] }
  /\ status' = "PENDING"
  /\ callId' = callId + 1
  /\ previousArgs' = Some(args)
  /\ fetchesSinceMount' = fetchesSinceMount + 1
  /\ UNCHANGED <<value, error>>

\* Task.hostUpdate() with autoRun: run when the args differ from the previous ones.
hostUpdate ==
  IF ~previousArgs.defined \/ ~argsEqual(previousArgs.v, args)
  THEN run
  ELSE /\ previousArgs' = Some(args)
       /\ UNCHANGED <<inflight, status, callId, value, error, fetchesSinceMount>>

\* LitElement.update(): render() and commit of its result.
update ==
  LET r == render(status', value', deviceList)
  IN /\ rendered' = r.out
     /\ deviceList' = r.deviceList

\* A run that processes its result whether or not a later call was made.
AnyCallProcessed(key) == TRUE

\* Only the result of the first call is ever processed.
OnlyFirstCallProcessed(key) == key = 1

\* Only the most recent call's result is processed.
isMostRecentCall(key) == key = callId

\* ------------------------------------------------------------ poll timer
\* An ensureTimerStarted() that arms an interval whether or not one is held.
StartPollUnguarded ==
  /\ handles' = handles + 1
  /\ timer' = handles + 1
  /\ intervals' = intervals \cup { [id |-> handles + 1, due |-> now + PollIntervalMs] }

ensureTimerStarted ==
  IF timer = 0
  THEN /\ handles' = handles + 1
       /\ timer' = handles + 1
       /\ intervals' = intervals \cup { [id |-> handles + 1, due |-> now + PollIntervalMs] }
  ELSE UNCHANGED timerVars

\* An ensureTimerStopped() that clears every interval of the page.
StopEveryTimer ==
  /\ intervals' = {}
  /\ other' = [other EXCEPT !.intervals = {}]
  /\ timer' = 0
  /\ UNCHANGED handles

\* clearInterval(this.timer) clears the interval of that handle, whichever
\* element's callback it runs; this.timer = undefined.
ensureTimerStopped ==
  /\ intervals' = { i \in intervals : i.id # timer }
  /\ other' = [other EXCEPT !.intervals = { i \in @ : i.id # timer }]
  /\ timer' = 0
  /\ UNCHANGED handles

\* --------------------------------------------------------------- actions
connectedCallback ==
  /\ timer # 0 \/ handles < MaxIntervals
  /\ isConnected' = TRUE
  /\ updateState' = IF updateState = "blocked" THEN "pending" ELSE updateState
  /\ ensureTimerStarted
  /\ mountedAt' = IF isConnected THEN mountedAt ELSE now
  /\ fetchesSinceMount' = IF isConnected THEN fetchesSinceMount ELSE 0
  /\ lastEvent' = Event("connected", 0, IF isConnected THEN "repeat" ELSE "", 0)
  /\ UNCHANGED other
  /\ labelsSetConnected(TRUE)
  /\ UNCHANGED cmdVars
  /\ UNCHANGED <<now, taskVars, deviceList, rendered, commands, lastGood, prevGood, failures,
                 recoveredFrom>>
  /\ UNCHANGED serverVars

disconnectedCallback ==
  /\ updateState # "blocked"
  /\ isConnected' = FALSE
  /\ ensureTimerStopped
  /\ inflight' = { [f EXCEPT !.orphaned = TRUE] : f \in inflight }
  /\ lastEvent' = Event("disconnected", 0, IF isConnected THEN "" ELSE "repeat", 0)
  /\ labelsSetConnected(FALSE)
  /\ UNCHANGED cmdVars
  /\ UNCHANGED <<now, updateState, status, callId, previousArgs, value, error,
                 deviceList, rendered, commands, histVars>>
  /\ UNCHANGED serverVars

\* The element's first update, released by the first connectedCallback.
firstUpdate ==
  /\ updateState = "pending"
  /\ updateState' = "done"
  /\ hostUpdate
  /\ update
  /\ lastEvent' = Event("firstUpdate", callId', "", 0)
  /\ UNCHANGED other
  /\ commitLabels
  /\ UNCHANGED cmdVars
  /\ UNCHANGED <<now, isConnected, timerVars, commands, lastGood, prevGood, failures,
                 recoveredFrom, mountedAt>>
  /\ UNCHANGED serverVars

\* A later update of the element that no Task change asked for (a reactive
\* property of the element was set).
requestUpdate ==
  /\ updateState = "done"
  /\ hostUpdate
  /\ update
  /\ lastEvent' = Event("requestUpdate", 0, "", 0)
  /\ UNCHANGED other
  /\ commitLabels
  /\ UNCHANGED cmdVars
  /\ UNCHANGED <<now, isConnected, updateState, timerVars, commands, lastGood,
                 prevGood, failures, recoveredFrom, mountedAt>>
  /\ UNCHANGED serverVars

\* The interval callback: this._deviceListTask.run(), then the update run() asked for.
timerCallback ==
  /\ updateState = "done"
  /\ \E i \in intervals :
       /\ i.due = now
       /\ intervals' = (intervals \ {i}) \cup { [i EXCEPT !.due = now + PollIntervalMs] }
  /\ run
  /\ update
  /\ lastEvent' = Event("timer", callId', "", 0)
  /\ UNCHANGED other
  /\ commitLabels
  /\ UNCHANGED cmdVars
  /\ UNCHANGED <<now, isConnected, updateState, timer, handles, commands, lastGood,
                 prevGood, failures, recoveredFrom, mountedAt>>
  /\ UNCHANGED serverVars

Outcomes(f) ==
  { Response(200, b) : b \in Payloads \cup { a.body : a \in { x \in answers : x.key = f.key } } }
    \cup { Response(h, <<>>) : h \in HttpStatuses \ {200} }
    \cup { NetworkError }
    \cup (IF f.aborted THEN { Aborted } ELSE {})

\* A list fetch settles and the run that awaited it continues.
fetchSettles ==
  /\ updateState = "done"
  /\ \E f \in inflight : \E o \in Outcomes(f) :
       LET r == task(o)
       IN /\ inflight' = inflight \ {f}
          /\ lastEvent' = Event("settle", f.key, o.kind, o.http)
          /\ UNCHANGED other
          /\ IF isMostRecentCall(f.key)
             THEN /\ status' = IF r.errored THEN "ERROR" ELSE "COMPLETE"
                  /\ value' = r.result
                  /\ error' = r.error
                  /\ lastGood' = IF r.errored THEN lastGood ELSE Some(o.body)
                  /\ prevGood' = IF r.errored THEN prevGood ELSE lastGood
                  /\ failures' = IF r.errored THEN failures + 1 ELSE 0
                  /\ recoveredFrom' = IF r.errored THEN recoveredFrom ELSE failures
                  /\ update
                  /\ commitLabels
             ELSE /\ UNCHANGED <<status, value, error, lastGood, prevGood, failures,
                                 recoveredFrom, deviceList, rendered>>
                  /\ UNCHANGED labelVars
  /\ UNCHANGED cmdVars
  /\ UNCHANGED <<now, isConnected, updateState, timerVars, callId, previousArgs,
                 commands, mountedAt, fetchesSinceMount>>
  /\ UNCHANGED serverVars

PowerUrl(id, power) == <<"api", "device", id, "power", power>>

\* A click that also flips the rendered switch before any poll confirms it.
SetPowerOptimistic ==
  /\ updateState = "done"
  /\ isConnected
  /\ commandBudget > 0
  /\ \E i \in 1..Len(rendered.rows) : \E checked \in BOOLEAN :
       /\ commands' = Append(commands,
                             PowerUrl(rendered.rows[i].id, IF checked THEN "on" ELSE "off"))
       /\ rendered' = [rendered EXCEPT !.rows[i].checked = checked]
       /\ interaction' = [kind |-> "power", id |-> rendered.rows[i].id, checked |-> checked,
                          rgb |-> <<0, 0, 0>>, n |-> interaction.n + 1]
  /\ outstanding' = outstanding \cup { Len(commands) + 1 }
  /\ commandBudget' = commandBudget - 1
  /\ lastEvent' = Event("command", 0, "", 0)
  /\ UNCHANGED other
  /\ UNCHANGED labelVars
  /\ UNCHANGED <<now, isConnected, updateState, timerVars, taskVars, deviceList, histVars>>
  /\ UNCHANGED serverVars

\* A click on the power switch of a rendered row; checked is the state of the
\* switch the event carries (e.target.checked).
_set_power_on ==
  /\ updateState = "done"
  /\ isConnected
  /\ commandBudget > 0
  /\ \E i \in 1..Len(rendered.rows) : \E checked \in BOOLEAN :
       /\ commands' = Append(commands,
                             PowerUrl(rendered.rows[i].id, IF checked THEN "on" ELSE "off"))
       /\ interaction' = [kind |-> "power", id |-> rendered.rows[i].id, checked |-> checked,
                          rgb |-> <<0, 0, 0>>, n |-> interaction.n + 1]
  /\ outstanding' = outstanding \cup { Len(commands) + 1 }
  /\ commandBudget' = commandBudget - 1
  /\ lastEvent' = Event("command", 0, "", 0)
  /\ UNCHANGED other
  /\ UNCHANGED labelVars
  /\ UNCHANGED <<now, isConnected, updateState, timerVars, taskVars, deviceList,
                 rendered, histVars>>
  /\ UNCHANGED serverVars

\* ---------------------------------------------------------- colour command
\* The colours picked in the behaviours that also follow the poll, and the
\* wider sample picked in ColorSpec: every channel at its ends, with a
\* leading zero digit and with letter digits.
Colors == { <<51, 102, 204>> }
Channels == {0, 10, 204, 255}
ColorSamples == { <<r, g, b>> : r \in Channels, g \in Channels, b \in Channels }
    \cup { <<51, 102, 204>> }

\* e.target.value of an <input type="color">: "#rrggbb" in lower case.
PickerValue(rgb) ==
  <<"#">> \o << LowerHex[(rgb[1] \div 16) + 1], LowerHex[(rgb[1] % 16) + 1],
                LowerHex[(rgb[2] \div 16) + 1], LowerHex[(rgb[2] % 16) + 1],
                LowerHex[(rgb[3] \div 16) + 1], LowerHex[(rgb[3] % 16) + 1] >>

\* The characters encodeURIComponent leaves alone, of those that occur here.
UriUnreserved ==
  { LowerHex[i] : i \in 1..16 } \cup { UpperHex[i] : i \in 1..16 }
    \cup { "-", "_", ".", "!", "~", "*", "'", "(", ")" }

\* The code unit of a character that encodeURIComponent escapes.
CharCode(c) ==
  CASE c = "#" -> 35
    [] c = "%" -> 37
    [] c = " " -> 32
    [] c = "/" -> 47

\* An encodeURIComponent that escapes nothing.
EncodeNothing(str) == str

\* encodeURIComponent(str), str a sequence of characters.
encodeURIComponent(str) ==
  LET esc(c) == IF c \in UriUnreserved
                THEN <<c>>
                ELSE <<"%", UpperHex[(CharCode(c) \div 16) + 1], UpperHex[(CharCode(c) % 16) + 1]>>
      enc[i \in 0..Len(str)] == IF i = 0 THEN <<>> ELSE enc[i - 1] \o esc(str[i])
  IN enc[Len(str)]

ColorUrl(id, color) == <<"api", "device", id, "color">> \o color

\* A colour change that sends nothing while an earlier command is outstanding.
SetColorCoalesced(palette) ==
  /\ updateState = "done"
  /\ isConnected
  /\ commandBudget > 0
  /\ \E i \in 1..Len(rendered.rows) : \E rgb \in palette :
       /\ commands' = IF outstanding = {}
                      THEN Append(commands,
                             ColorUrl(rendered.rows[i].id, encodeURIComponent(PickerValue(rgb))))
                      ELSE commands
       /\ interaction' = [kind |-> "color", id |-> rendered.rows[i].id, checked |-> FALSE,
                          rgb |-> rgb, n |-> interaction.n + 1]
  /\ outstanding' = IF outstanding = {} THEN { Len(commands) + 1 } ELSE outstanding
  /\ commandBudget' = commandBudget - 1
  /\ lastEvent' = Event("command", 0, "", 0)
  /\ UNCHANGED other
  /\ UNCHANGED labelVars
  /\ UNCHANGED <<now, isConnected, updateState, timerVars, taskVars, deviceList,
                 rendered, histVars>>
  /\ UNCHANGED serverVars

\* A change of the colour picker of a rendered row to a colour of palette.
_set_color(palette) ==
  /\ updateState = "done"
  /\ isConnected
  /\ commandBudget > 0
  /\ \E i \in 1..Len(rendered.rows) : \E rgb \in palette :
       /\ commands' = Append(commands,
                             ColorUrl(rendered.rows[i].id, encodeURIComponent(PickerValue(rgb))))
       /\ interaction' = [kind |-> "color", id |-> rendered.rows[i].id, checked |-> FALSE,
                          rgb |-> rgb, n |-> interaction.n + 1]
  /\ outstanding' = outstanding \cup { Len(commands) + 1 }
  /\ commandBudget' = commandBudget - 1
  /\ lastEvent' = Event("command", 0, "", 0)
  /\ UNCHANGED other
  /\ UNCHANGED labelVars
  /\ UNCHANGED <<now, isConnected, updateState, timerVars, taskVars, deviceList,
                 rendered, histVars>>
  /\ UNCHANGED serverVars

\* A completion of a command that starts a run of the list task.
CommandSettlesRefreshes ==
  /\ updateState = "done"
  /\ \E k \in outstanding : \E o \in { Response(h, <<>>) : h \in HttpStatuses } \cup { NetworkError } :
       /\ outstanding' = outstanding \ {k}
       /\ lastEvent' = Event("commandSettle", k, o.kind, o.http)
       /\ UNCHANGED other
  /\ run
  /\ update
  /\ UNCHANGED labelVars
  /\ UNCHANGED <<now, isConnected, updateState, timerVars, commands, commandBudget, interaction,
                 lastGood, prevGood, failures, recoveredFrom, mountedAt>>
  /\ UNCHANGED serverVars

\* The request of a command completes: with any status, or with a network
\* failure.  Nothing awaits the promise fetch() returned.
commandSettles ==
  /\ updateState = "done"
  /\ \E k \in outstanding : \E o \in { Response(h, <<>>) : h \in HttpStatuses } \cup { NetworkError } :
       /\ outstanding' = outstanding \ {k}
       /\ lastEvent' = Event("commandSettle", k, o.kind, o.http)
       /\ UNCHANGED other
  /\ UNCHANGED labelVars
  /\ UNCHANGED <<now, isConnected, updateState, timerVars, taskVars, deviceList, rendered,
                 commands, commandBudget, interaction, histVars>>
  /\ UNCHANGED serverVars

\* Time passes: no update is queued and no interval is due.
Advance ==
  /\ updateState # "pending"
  /\ now < MaxClockSteps * ClockStepMs
  /\ \A i \in intervals : i.due > now
  /\ now' = now + ClockStepMs
  /\ lastEvent' = Event("other", 0, "", 0)
  /\ UNCHANGED other
  /\ UNCHANGED labelVars
  /\ UNCHANGED cmdVars
  /\ UNCHANGED <<isConnected, updateState, timerVars, taskVars, deviceList, rendered,
                 commands, histVars>>
  /\ UNCHANGED serverVars

Next ==
  \/ connectedCallback
  \/ disconnectedCallback
  \/ firstUpdate
  \/ requestUpdate
  \/ timerCallback
  \/ fetchSettles
  \/ _set_power_on
  \/ Advance

Spec == Init /\ [][Next]_vars

\* ------------------------------------------------- the mounted dashboard
\* The dashboard while it stays mounted, with the two commands and their
\* completions, over one period of the poll.
CmdAdvance ==
  /\ now < MaxCmdClockSteps * ClockStepMs
  /\ Advance

CmdNext ==
  \/ connectedCallback
  \/ firstUpdate
  \/ timerCallback
  \/ fetchSettles
  \/ _set_power_on
  \/ _set_color(Colors)
  \/ commandSettles
  \/ CmdAdvance

CmdSpec == Start(MaxCmdCommands) /\ [][CmdNext]_vars

\* --------------------------------------------------------------- backend
\* The backend behind /api/devices and /api/device/{id}/power/{on|off}: it
\* holds the devices, carries out a power command it received by setting
\* the state of that device, and answers a list fetch with the devices as
\* it holds them at that moment.

\* The backend carries out a power command whose request is outstanding.
serverApplies ==
  /\ \E k \in outstanding \ applied :
       LET id == commands[k][3]
           on == commands[k][5] = "on"
           after == [i \in 1..Len(server) |->
                       IF server[i].id = id THEN Device(id, StateOf(on)) ELSE server[i]]
       IN /\ commands[k][4] = "power"
          /\ server' = after
          /\ applied' = applied \cup {k}
          /\ serverHistory' = Append(serverHistory, [state |-> after, afterCall |-> callId])
  /\ lastEvent' = Event("other", 0, "", 0)
  /\ UNCHANGED other
  /\ UNCHANGED <<now, isConnected, updateState, timerVars, taskVars, deviceList, rendered,
                 commands, histVars, answers>>
  /\ UNCHANGED labelVars
  /\ UNCHANGED cmdVars

\* The backend answers a list fetch: the body is fixed at this moment.
serverAnswers ==
  /\ \E f \in inflight :
       /\ \A a \in answers : a.key # f.key
       /\ answers' = answers \cup { [key |-> f.key, body |-> server] }
  /\ lastEvent' = Event("other", 0, "", 0)
  /\ UNCHANGED other
  /\ UNCHANGED <<now, isConnected, updateState, timerVars, taskVars, deviceList, rendered,
                 commands, histVars, server, applied, serverHistory>>
  /\ UNCHANGED labelVars
  /\ UNCHANGED cmdVars

\* A list fetch settles with the answer of the backend: status 200 and the
\* body the backend fixed.
answeredFetchSettles ==
  /\ fetchSettles
  /\ lastEvent'.kind = "response"
  /\ lastEvent'.http = 200
  /\ \E a \in answers :
       /\ a.key = lastEvent'.key
       /\ a.key = callId => value' = Some(a.body)

\* A command completes after the backend carried it out, or fails.
answeredCommandSettles ==
  /\ commandSettles
  /\ lastEvent'.kind = "response" /\ ok(lastEvent'.http) => lastEvent'.key \in applied

ServerNext ==
  \/ connectedCallback
  \/ firstUpdate
  \/ timerCallback
  \/ serverAnswers
  \/ answeredFetchSettles
  \/ _set_power_on
  \/ serverApplies
  \/ answeredCommandSettles
  \/ CmdAdvance

ServerSpec == Start(MaxServerCommands) /\ [][ServerNext]_vars

\* The colour command alone, over the wider sample of colours.
ColorNext ==
  \/ connectedCallback
  \/ firstUpdate
  \/ fetchSettles
  \/ _set_color(ColorSamples)
  \/ commandSettles

ColorSpec == Init /\ [][ColorNext]_vars

\* The colour picker's value, over the wider sample of colours: the backend
\* holds a device of any sampled colour and the dashboard polls it.
HexInit ==
  \E rgb \in ColorSamples : \E on \in BOOLEAN :
    StartWith(0, << Device("abc", ColoredState(on, rgb, 0)), Device("def", NoState) >>, {})

HexNext ==
  \/ connectedCallback
  \/ firstUpdate
  \/ serverAnswers
  \/ answeredFetchSettles

HexSpec == HexInit /\ [][HexNext]_vars

\* ============================================================ time labels
\* The timeAgo directive of assets/components/timeago.js.  A label is one
\* instance of TimeAgoDirective; Lit creates it when the binding is first
\* rendered (isConnected is then the connection state of the part it sits
\* in) and calls update() at once and on every later render of the parent,
\* disconnected() when the part leaves the connected tree and reconnected()
\* when it comes back.  The label clock moves in half periods, so that a
\* label can be attached between two whole seconds.
LabelTimes == {0, 1500}
LabelClockStepMs == LabelIntervalMs \div 2

\* timeago.format(time): the age of time at the current clock, in whole seconds.
TimeAgo_render(time) == (now - time) \div 1000

\* An ensureTimerStarted() that arms an interval whether or not one is held.
StartTimerUnguarded(l, lab) ==
  /\ labels' = [labels EXCEPT ![l] = [lab EXCEPT !.timer = labelHandles + 1]]
  /\ labelIntervals' = labelIntervals \cup
       { [id |-> labelHandles + 1, owner |-> l, due |-> now + LabelIntervalMs] }
  /\ labelHandles' = labelHandles + 1

\* ensureTimerStarted() of the label l whose fields are lab.
TimeAgo_ensureTimerStarted(l, lab) ==
  IF lab.timer = 0
  THEN /\ labels' = [labels EXCEPT ![l] = [lab EXCEPT !.timer = labelHandles + 1]]
       /\ labelIntervals' = labelIntervals \cup
            { [id |-> labelHandles + 1, owner |-> l, due |-> now + LabelIntervalMs] }
       /\ labelHandles' = labelHandles + 1
  ELSE /\ labels' = [labels EXCEPT ![l] = lab]
       /\ UNCHANGED <<labelIntervals, labelHandles>>

\* An ensureTimerStopped() that forgets the handle without clearing the interval.
StopTimerWithoutClear(l, lab) ==
  /\ labels' = [labels EXCEPT ![l] = [lab EXCEPT !.timer = 0]]
  /\ UNCHANGED <<labelIntervals, labelHandles>>

\* ensureTimerStopped(): clearInterval(this.timer); this.timer = undefined.
TimeAgo_ensureTimerStopped(l, lab) ==
  /\ labelIntervals' = { i \in labelIntervals : i.id # lab.timer }
  /\ labels' = [labels EXCEPT ![l] = [lab EXCEPT !.timer = 0]]
  /\ UNCHANGED labelHandles

\* An update() that starts the timer whether or not the label is connected.
UpdateArmsAlways ==
  /\ \E l \in LabelIds : \E t \in LabelTimes : \E partConnected \in BOOLEAN :
       LET old == labels[l]
           conn == IF old.created THEN old.isConnected ELSE partConnected
           lab == [old EXCEPT !.created = TRUE, !.isConnected = conn, !.time = Some(t),
                              !.shown = Some(TimeAgo_render(t))]
       IN /\ t <= now
          /\ old.created => partConnected
          /\ old.timer # 0 \/ labelHandles < MaxLabelIntervals
          /\ TimeAgo_ensureTimerStarted(l, lab)
          /\ labelHist' = [labelHist EXCEPT
               ![l].shownAt = now,
               ![l].attachedAt = IF old.created THEN @ ELSE now]
  /\ lastEvent' = Event("labelUpdate", 0, "", 0)
  /\ UNCHANGED other
  /\ UNCHANGED cmdVars
  /\ UNCHANGED <<now, isConnected, updateState, timerVars, taskVars, deviceList, rendered,
                 commands, histVars>>
  /\ UNCHANGED serverVars

\* update(part, [time]): the parent renders the binding with the time t.
TimeAgo_update ==
  /\ \E l \in LabelIds : \E t \in LabelTimes : \E partConnected \in BOOLEAN :
       LET old == labels[l]
           conn == IF old.created THEN old.isConnected ELSE partConnected
           lab == [old EXCEPT !.created = TRUE, !.isConnected = conn, !.time = Some(t),
                              !.shown = Some(TimeAgo_render(t))]
       IN /\ t <= now
          /\ old.created => partConnected
          /\ ~conn \/ old.timer # 0 \/ labelHandles < MaxLabelIntervals
          /\ IF conn
             THEN TimeAgo_ensureTimerStarted(l, lab)
             ELSE /\ labels' = [labels EXCEPT ![l] = lab]
                  /\ UNCHANGED <<labelIntervals, labelHandles>>
          /\ labelHist' = [labelHist EXCEPT
               ![l].shownAt = now,
               ![l].attachedAt = IF old.created THEN @ ELSE now]
  /\ lastEvent' = Event("labelUpdate", 0, "", 0)
  /\ UNCHANGED other
  /\ UNCHANGED cmdVars
  /\ UNCHANGED <<now, isConnected, updateState, timerVars, taskVars, deviceList, rendered,
                 commands, histVars>>
  /\ UNCHANGED serverVars

\* An interval callback that formats against the epoch instead of this.time.
TickFormatsEpoch ==
  /\ \E i \in labelIntervals :
       /\ i.due = now
       /\ labelIntervals' = (labelIntervals \ {i}) \cup { [i EXCEPT !.due = now + LabelIntervalMs] }
       /\ labels' = [labels EXCEPT ![i.owner].shown = Some(TimeAgo_render(0))]
       /\ labelHist' = [labelHist EXCEPT ![i.owner].ticks = @ + 1, ![i.owner].shownAt = now]
  /\ lastEvent' = Event("labelTick", 0, "", 0)
  /\ UNCHANGED other
  /\ UNCHANGED cmdVars
  /\ UNCHANGED <<now, isConnected, updateState, timerVars, taskVars, deviceList, rendered,
                 commands, histVars, labelHandles>>
  /\ UNCHANGED serverVars

\* The interval callback of a label: this.setValue(this.render(this.time)).
TimeAgo_timerCallback ==
  /\ \E i \in labelIntervals :
       /\ i.due = now
       /\ labelIntervals' = (labelIntervals \ {i}) \cup { [i EXCEPT !.due = now + LabelIntervalMs] }
       /\ labels' = [labels EXCEPT
            ![i.owner].shown = Some(TimeAgo_render(labels[i.owner].time.v))]
       /\ labelHist' = [labelHist EXCEPT ![i.owner].ticks = @ + 1, ![i.owner].shownAt = now]
  /\ lastEvent' = Event("labelTick", 0, "", 0)
  /\ UNCHANGED other
  /\ UNCHANGED cmdVars
  /\ UNCHANGED <<now, isConnected, updateState, timerVars, taskVars, deviceList, rendered,
                 commands, histVars, labelHandles>>
  /\ UNCHANGED serverVars

\* A disconnected() that leaves the timer of the label running.
DisconnectedKeepsTimer ==
  /\ \E l \in LabelIds :
       /\ labels[l].created
       /\ labels[l].isConnected
       /\ labels' = [labels EXCEPT ![l].isConnected = FALSE]
       /\ labelHist' = [labelHist EXCEPT ![l].detachedAt = now]
  /\ lastEvent' = Event("other", 0, "", 0)
  /\ UNCHANGED other
  /\ UNCHANGED cmdVars
  /\ UNCHANGED <<now, isConnected, updateState, timerVars, taskVars, deviceList, rendered,
                 commands, histVars, labelIntervals, labelHandles>>
  /\ UNCHANGED serverVars

\* The part of a label leaves the connected tree: isConnected = false, disconnected().
disconnected ==
  /\ \E l \in LabelIds :
       /\ labels[l].created
       /\ labels[l].isConnected
       /\ TimeAgo_ensureTimerStopped(l, [labels[l] EXCEPT !.isConnected = FALSE])
       /\ labelHist' = [labelHist EXCEPT ![l].detachedAt = now]
  /\ lastEvent' = Event("other", 0, "", 0)
  /\ UNCHANGED other
  /\ UNCHANGED cmdVars
  /\ UNCHANGED <<now, isConnected, updateState, timerVars, taskVars, deviceList, rendered,
                 commands, histVars>>
  /\ UNCHANGED serverVars

\* The part of a label comes back: isConnected = true, reconnected().
reconnected ==
  /\ \E l \in LabelIds :
       /\ labels[l].created
       /\ ~labels[l].isConnected
       /\ labels[l].timer # 0 \/ labelHandles < MaxLabelIntervals
       /\ TimeAgo_ensureTimerStarted(l, [labels[l] EXCEPT !.isConnected = TRUE])
       /\ labelHist' = [labelHist EXCEPT
            ![l].attachedAt = now, ![l].ticks = 0, ![l].reattached = TRUE,
            ![l].detachedFor = now - labelHist[l].detachedAt]
  /\ lastEvent' = Event("reconnected", 0, "", 0)
  /\ UNCHANGED other
  /\ UNCHANGED cmdVars
  /\ UNCHANGED <<now, isConnected, updateState, timerVars, taskVars, deviceList, rendered,
                 commands, histVars>>
  /\ UNCHANGED serverVars

\* Time passes for the labels: no interval of a label is due.
LabelAdvance ==
  /\ now < MaxLabelClockSteps * LabelClockStepMs
  /\ \A i \in labelIntervals : i.due > now
  /\ now' = now + LabelClockStepMs
  /\ lastEvent' = Event("other", 0, "", 0)
  /\ UNCHANGED other
  /\ UNCHANGED cmdVars
  /\ UNCHANGED <<isConnected, updateState, timerVars, taskVars, deviceList, rendered,
                 commands, histVars, labelVars>>
  /\ UNCHANGED serverVars

LabelNext ==
  \/ TimeAgo_update
  \/ TimeAgo_timerCallback
  \/ disconnected
  \/ reconnected
  \/ LabelAdvance

LabelInit ==
  StartWith(MaxCommands, << Device("abc", StateOf(FALSE)), Device("def", NoState) >>, LabelIds)

LabelSpec == LabelInit /\ [][LabelNext]_vars

\* ------------------------------------------ the dashboard with its labels
\* The rows whose timeAgo binding is followed.
RowLabelIds == {1, 2}

RowInit ==
  StartWith(0, << Device("abc", StateOf(TRUE)), Device("def", StateOf(FALSE)) >>, RowLabelIds)

\* A list fetch settles with 200, or with 500.
rowFetchSettles ==
  /\ fetchSettles
  /\ lastEvent'.kind = "response"
  /\ lastEvent'.http \in {200, 500}

\* Time passes when no first update is queued and no interval is due.
RowAdvance ==
  /\ updateState # "pending"
  /\ now < MaxRowClockSteps * ClockStepMs
  /\ \A i \in intervals : i.due > now
  /\ \A i \in labelIntervals : i.due > now
  /\ now' = now + ClockStepMs
  /\ lastEvent' = Event("other", 0, "", 0)
  /\ UNCHANGED other
  /\ UNCHANGED labelVars
  /\ UNCHANGED cmdVars
  /\ UNCHANGED <<isConnected, updateState, timerVars, taskVars, deviceList, rendered,
                 commands, histVars>>
  /\ UNCHANGED serverVars

RowNext ==
  \/ connectedCallback
  \/ disconnectedCallback
  \/ firstUpdate
  \/ timerCallback
  \/ serverAnswers
  \/ rowFetchSettles
  \/ TimeAgo_timerCallback
  \/ RowAdvance

RowSpec == RowInit /\ [][RowNext]_vars

\* ------------------------------------------- two dashboards on one page
\* The fields of the element the actions act on.
ThisInstance ==
  [ isConnected |-> isConnected, updateState |-> updateState, timer |-> timer,
    intervals |-> intervals, status |-> status, callId |-> callId,
    previousArgs |-> previousArgs, value |-> value, error |-> error,
    inflight |-> inflight, deviceList |-> deviceList, rendered |-> rendered,
    lastGood |-> lastGood, prevGood |-> prevGood, failures |-> failures,
    recoveredFrom |-> recoveredFrom, mountedAt |-> mountedAt,
    fetchesSinceMount |-> fetchesSinceMount ]

\* The next event of the page belongs to the other element: each element's
\* handlers run with their own this. The host clock, the handles the host
\* has handed out and the network are the page's.
switchInstance ==
  /\ other' = ThisInstance
  /\ isConnected' = other.isConnected
  /\ updateState' = other.updateState
  /\ timer' = other.timer
  /\ intervals' = other.intervals
  /\ status' = other.status
  /\ callId' = other.callId
  /\ previousArgs' = other.previousArgs
  /\ value' = other.value
  /\ error' = other.error
  /\ inflight' = other.inflight
  /\ deviceList' = other.deviceList
  /\ rendered' = other.rendered
  /\ lastGood' = other.lastGood
  /\ prevGood' = other.prevGood
  /\ failures' = other.failures
  /\ recoveredFrom' = other.recoveredFrom
  /\ mountedAt' = other.mountedAt
  /\ fetchesSinceMount' = other.fetchesSinceMount
  /\ lastEvent' = Event("switch", 0, "", 0)
  /\ UNCHANGED <<now, handles, commands>>
  /\ UNCHANGED labelVars
  /\ UNCHANGED cmdVars
  /\ UNCHANGED serverVars

PairClockStepMs == PollIntervalMs \div 2

\* Time passes on the page when neither element has a first update queued
\* or an interval due.
PairAdvance ==
  /\ updateState # "pending" /\ other.updateState # "pending"
  /\ now < MaxPairClockSteps * PairClockStepMs
  /\ \A i \in intervals \cup other.intervals : i.due > now
  /\ now' = now + PairClockStepMs
  /\ lastEvent' = Event("other", 0, "", 0)
  /\ UNCHANGED other
  /\ UNCHANGED labelVars
  /\ UNCHANGED cmdVars
  /\ UNCHANGED <<isConnected, updateState, timerVars, taskVars, deviceList, rendered,
                 commands, histVars>>
  /\ UNCHANGED serverVars

\* A list fetch of the element settles: the backend answers 200 with a list
\* of one device, or the request fails or was aborted.
pairFetchSettles ==
  /\ fetchSettles
  /\ lastEvent'.http \in {0, 200}
  /\ value' # value => Len(value'.v) = 1

PairNext ==
  \/ connectedCallback
  \/ disconnectedCallback
  \/ firstUpdate
  \/ timerCallback
  \/ pairFetchSettles
  \/ _set_power_on
  \/ PairAdvance
  \/ switchInstance

PairSpec == Init /\ [][PairNext]_vars

\* ================================================================ claims
\* The rendered output is the table of exactly the devices of list, in
\* order, each row computed from its device alone.
ShowsExactly(list) ==
  /\ rendered.kind = "table"
  /\ Len(rendered.rows) = Len(list)
  /\ \A i \in 1..Len(list) :
       /\ rendered.rows[i].id = list[i].id
       /\ rendered.rows[i].checked = (list[i].state.present /\ list[i].state.on)
       /\ rendered.rows[i].updated.defined = list[i].state.present
       /\ rendered.rows[i].source = list[i].state.present

DigitValue(c) == CHOOSE d \in 0..9 : DigitChar(d) = c
RECURSIVE ParseNumber(_)
ParseNumber(digits) ==
  IF Len(digits) = 0 THEN 0
  ELSE 10 * ParseNumber(SubSeq(digits, 1, Len(digits) - 1)) + DigitValue(digits[Len(digits)])

\* The call ids of the list fetches in flight.
InFlightKeys == { f.key : f \in inflight }
\* The step is the settling of a list fetch.
SettleStep == lastEvent'.type = "settle" /\ inflight' # inflight
\* The interval that DeviceList.timer names is live and due within one period.
TimerArmed ==
  /\ timer # 0
  /\ \E i \in intervals : i.id = timer /\ now <= i.due /\ i.due <= now + PollIntervalMs
\* No callback of the element is waiting to run at this instant.
Quiet == updateState = "done" /\ \A i \in intervals : i.due > now

\* C1: when a list fetch of a run that a later run() superseded settles
\* (with success or with failure), the task's status, value and error, the
\* held deviceList and the rendered output all stay as they were; the status
\* becomes COMPLETE or ERROR only by the settling of the most recent run.
C1_SupersededRunIgnored ==
  [][ /\ (SettleStep /\ lastEvent'.key # callId)
         => UNCHANGED <<status, value, error, deviceList, rendered>>
      /\ (status' # status /\ status' \in {"COMPLETE", "ERROR"})
         => (SettleStep /\ lastEvent'.key = callId') ]_vars

\* C1 witness: a superseded fetch has just settled with a 200 response after
\* the newer run had completed, and the table is still on show.
C1_Witness ==
  /\ lastEvent.type = "settle" /\ lastEvent.key < callId
  /\ lastEvent.kind = "response" /\ lastEvent.http = 200
  /\ status = "COMPLETE" /\ rendered.kind = "table"

\* C2: in the error state reached after at least one successful poll, the
\* rendered rows are exactly those of the last successful poll.
C2_ErrorKeepsLastGoodRows ==
  (status = "ERROR" /\ lastGood.defined) => ShowsExactly(lastGood.v)

\* C3: the settling of a list fetch that was in flight when the dashboard
\* was unmounted changes neither the task state nor the held deviceList nor
\* the rendered output, and fires no timer.
C3_UnmountCancelsInFlightRun ==
  [][ (SettleStep /\ \E f \in inflight : f \notin inflight' /\ f.orphaned)
        => UNCHANGED <<status, value, error, deviceList, rendered, intervals, callId>> ]_vars

\* C4: between an unmount and the next mount the poll timer does not fire
\* and the instance starts no list fetch.
C4_NoActivityWhileUnmounted ==
  [][ (~isConnected /\ ~isConnected' /\ updateState # "blocked")
        => (lastEvent'.type # "timer" /\ callId' = callId
            /\ InFlightKeys' \subseteq InFlightKeys) ]_vars

\* C5: after t ms of continuous mounting (first mount or re-mount) exactly
\* 1 + floor(t / 5000) list fetches have been started since the mount.
C5_FetchCountOnEveryMount ==
  (isConnected /\ Quiet)
    => fetchesSinceMount = 1 + ((now - mountedAt) \div PollIntervalMs)

\* C6: after a successful poll L1 followed by a successful poll L2 the
\* rendered rows are exactly L2's devices in L2's order, every field of every
\* row computed from L2, and the held list is L2.
C6_SnapshotReplacedWholesale ==
  status = "COMPLETE" => (ShowsExactly(lastGood.v) /\ deviceList = Some(lastGood.v))

\* C6 witness: L1 had two devices, L2 has one of them with another power state.
C6_Witness ==
  /\ status = "COMPLETE"
  /\ prevGood = Some(<< Device("abc", StateOf(FALSE)), Device("def", NoState) >>)
  /\ lastGood = Some(<< Device("abc", StateOf(TRUE)) >>)

\* C7: while the task is pending after some run completed successfully, the
\* rendered rows are exactly the snapshot of the most recent successful run;
\* the loading placeholder is on show only while no run has ever succeeded.
C7_StaleWhileRevalidate ==
  /\ (status = "PENDING" /\ lastGood.defined) => ShowsExactly(lastGood.v)
  /\ rendered.kind = "loading" => ~lastGood.defined

\* C7 witness: pending again after a success, re-mounted in between, rows on show.
C7_Witness ==
  /\ status = "PENDING" /\ lastGood.defined /\ Len(lastGood.v) = 2
  /\ handles >= 2 /\ isConnected /\ rendered.kind = "table"

\* C8: while the dashboard is mounted its timer stays armed, due within one
\* period, whatever number of runs failed; the tick starts a run from
\* every status, the error status included; and the success of that run is
\* rendered.
C8_FailuresNotFatal ==
  /\ [](isConnected => TimerArmed)
  /\ [][ /\ lastEvent'.type = "timer"
            => (callId' = callId + 1 /\ status' = "PENDING"
                /\ \E f \in inflight' : f.key = callId' /\ ~f.aborted)
         /\ (SettleStep /\ lastEvent'.key = callId /\ lastEvent'.http = 200)
            => (status' = "COMPLETE" /\ lastGood'.defined /\ ShowsExactly(lastGood.v)') ]_vars

\* C8 witness: a run succeeded and is rendered after two consecutive failed
\* runs, on a dashboard that stayed mounted.
C8_Witness ==
  /\ status = "COMPLETE" /\ recoveredFrom >= 2 /\ handles = 1 /\ isConnected
  /\ rendered.kind = "table" /\ TimerArmed

\* C9: a list fetch is started only by the element's first update (the
\* mount-time run) or by a tick of the poll timer; the settling of a fetch,
\* a later re-render and a command dispatch start none.
C9_OnlyMountAndTimerStartFetches ==
  [][ (callId' # callId \/ ~(InFlightKeys' \subseteq InFlightKeys)
         \/ fetchesSinceMount' > fetchesSinceMount)
        => lastEvent'.type \in {"firstUpdate", "timer"} ]_vars

\* C9 witness: the element re-rendered in the error state, no fetch in flight.
C9_Witness ==
  lastEvent.type = "requestUpdate" /\ status = "ERROR" /\ inflight = {} /\ isConnected

\* C10: when the list fetch of the current run ends with a non-2xx status
\* the task enters ERROR with an error whose message is that status code;
\* when it fails at the network level the task enters ERROR; the task
\* enters COMPLETE only on a 2xx response.
C10_FailuresAreErrors ==
  [][ (SettleStep /\ lastEvent'.key = callId)
        => /\ (lastEvent'.kind = "response" /\ lastEvent'.http \notin 200..299)
                => (status' = "ERROR" /\ error'.defined
                    /\ ParseNumber(error'.message) = lastEvent'.http)
           /\ lastEvent'.kind # "response" => (status' = "ERROR" /\ error'.defined)
           /\ status' = "COMPLETE"
                => (lastEvent'.kind = "response" /\ lastEvent'.http \in 200..299) ]_vars

\* C10 witness: the current run has just ended with a 500 response.
C10_Witness ==
  /\ lastEvent.type = "settle" /\ lastEvent.key = callId /\ lastEvent.http = 500
  /\ status = "ERROR" /\ error.message = <<"5", "0", "0">>

\* C11: in every state, each list fetch in flight that belongs to a run a
\* later run() superseded has had its signal aborted; the step that starts
\* the new fetch is the step that aborts the old one, so the abort is never
\* later than the start of the new fetch.
C11_SupersededFetchAborted ==
  /\ [](\A f \in inflight : f.key # callId => f.aborted)
  /\ [][ callId' # callId
           => \A f \in inflight' : (f.key = callId => f.aborted) /\ (f.key = callId' => ~f.aborted)
       ]_vars

\* C11 witness: a tick has just superseded a run whose fetch is outstanding.
C11_Witness ==
  /\ lastEvent.type = "timer"
  /\ \E f \in inflight : f.key = callId - 1 /\ f.aborted
  /\ \E f \in inflight : f.key = callId /\ ~f.aborted

\* No interval of a label is due: every tick the clock has reached has fired.
LabelQuiet == \A i \in labelIntervals : i.due > now

Attached(l) == labels[l].created /\ labels[l].isConnected
Detached(l) == labels[l].created /\ ~labels[l].isConnected

\* C12: a label that has been attached without interruption for t ms has
\* been re-displayed by its timer exactly t \div 1000 times.
C12_OneRedisplayPerSecond ==
  \A l \in LabelIds :
    Attached(l) /\ LabelQuiet
      => labelHist[l].ticks = (now - labelHist[l].attachedAt) \div LabelIntervalMs

\* C12 witness: attached between two whole seconds, re-rendered by the parent
\* meanwhile, and two periods and a half later two ticks have fired.
C12_Witness ==
  \E l \in LabelIds :
    /\ Attached(l) /\ LabelQuiet
    /\ labelHist[l].attachedAt = 500
    /\ now = 3000
    /\ labelHist[l].ticks = 2
    /\ labels[l].time = Some(1500)

\* C13: a detached label holds no timer handle and no live interval, and
\* while it stays detached no tick of a timer re-displays it; its value is
\* recomputed only when the parent renders the binding again.
C13_DetachedLabelIsIdle ==
  /\ [](\A l \in LabelIds :
          Detached(l) => labels[l].timer = 0 /\ \A i \in labelIntervals : i.owner # l)
  /\ [][ \A l \in LabelIds :
           Detached(l) /\ ~labels'[l].isConnected
             => /\ labelHist'[l].ticks = labelHist[l].ticks
                /\ (labelHist'[l].shownAt # labelHist[l].shownAt
                      => lastEvent'.type = "labelUpdate")
       ]_vars

\* C13 witness: a label that ticked while attached has now been detached for
\* two periods and shows what it showed when it was detached.
C13_Witness ==
  \E l \in LabelIds :
    /\ Detached(l)
    /\ labelHist[l].ticks >= 1
    /\ now >= labelHist[l].detachedAt + 2 * LabelIntervalMs
    /\ labelHist[l].shownAt <= labelHist[l].detachedAt

\* C14: the step that re-attaches a label re-displays it, with the age of
\* its time at the clock of the re-attachment.
C14_RedisplayAtReattach ==
  [][ \A l \in LabelIds :
        Detached(l) /\ labels'[l].isConnected
          => /\ labelHist'[l].shownAt = now'
             /\ labels'[l].shown = Some((now' - labels'[l].time.v) \div 1000)
    ]_vars

\* C15: after a re-attachment the timer of the label re-displays it at whole
\* periods counted from the re-attachment and at no other moment, however
\* long the label was detached: the re-displays of the first t ms are never
\* more than one per period plus one.
C15_NoMissedTicksReplayed ==
  /\ [](\A l \in LabelIds :
          Attached(l) /\ labelHist[l].reattached
            => labelHist[l].ticks <= (now - labelHist[l].attachedAt) \div LabelIntervalMs + 1)
  /\ [][ \A l \in LabelIds :
           /\ Attached(l) /\ labelHist[l].reattached
           /\ labelHist'[l].ticks # labelHist[l].ticks
           => /\ labelHist'[l].ticks = labelHist[l].ticks + 1
              /\ (now - labelHist[l].attachedAt) % LabelIntervalMs = 0
              /\ labelHist'[l].ticks = (now - labelHist[l].attachedAt) \div LabelIntervalMs
       ]_vars

\* C15 witness: a label detached for two periods and a half, during which
\* two ticks were missed, has ticked once since it was re-attached.
C15_Witness ==
  \E l \in LabelIds :
    /\ Attached(l) /\ labelHist[l].reattached
    /\ labelHist[l].detachedFor = 2500
    /\ labelHist[l].ticks = 1
    /\ now = labelHist[l].attachedAt + LabelIntervalMs

\* The step is an interaction with a control.
Interacts == interaction'.n = interaction.n + 1

\* The request the step sent, if it sent exactly one.
SentOne == Len(commands') = Len(commands) + 1 /\ SubSeq(commands', 1, Len(commands)) = commands
LastSent == commands'[Len(commands')]

\* Each rendered switch is checked exactly when the device of the held
\* snapshot at its row has a state that is on.
SwitchesShowSnapshot(out, held) ==
  /\ out.kind = "table"
  /\ held.defined
  /\ Len(out.rows) = Len(held.v)
  /\ \A i \in 1..Len(held.v) :
       out.rows[i].checked = (held.v[i].state.present /\ held.v[i].state.on)

HexValue(c) ==
  CHOOSE n \in 0..15 : LowerHex[n + 1] = c \/ UpperHex[n + 1] = c

\* The inverse of percent-encoding for the characters that occur here.
PercentDecode(str) ==
  LET dec[i \in 0..Len(str)] ==
        IF i = 0 THEN <<>>
        ELSE IF i >= 3 /\ str[i - 2] = "%"
             THEN dec[i - 3]
                    \o << CHOOSE c \in {"#", "%", " ", "/"} :
                            CharCode(c) = HexValue(str[i - 1]) * 16 + HexValue(str[i]) >>
             ELSE IF str[i] = "%" \/ (i >= 2 /\ str[i - 1] = "%")
                  THEN dec[i - 1]
                  ELSE dec[i - 1] \o << str[i] >>
  IN dec[Len(str)]

\* "#RRGGBB" read as three channels.
ParseColor(str) ==
  << HexValue(str[2]) * 16 + HexValue(str[3]),
     HexValue(str[4]) * 16 + HexValue(str[5]),
     HexValue(str[6]) * 16 + HexValue(str[7]) >>

\* C17: a selection of the colour r, g, b in the row of device d sends exactly
\* one request to /api/device/d/color/v, where v holds no "#", starts with
\* %23, and percent-decoded reads as #RRGGBB with exactly r, g, b.
C17_ColorRequestRoundTrips ==
  [][ Interacts /\ interaction'.kind = "color"
        => /\ SentOne
           /\ SubSeq(LastSent, 1, 4) = <<"api", "device", interaction'.id, "color">>
           /\ LET v == SubSeq(LastSent, 5, Len(LastSent))
              IN /\ SubSeq(v, 1, 3) = <<"%", "2", "3">>
                 /\ \A i \in 1..Len(v) : v[i] # "#"
                 /\ Len(PercentDecode(v)) = 7
                 /\ PercentDecode(v)[1] = "#"
                 /\ ParseColor(PercentDecode(v)) = interaction'.rgb
    ]_vars

\* C17 witness: the colour 51, 102, 204 was selected and went out as %233366cc.
C17_Witness ==
  /\ lastEvent.type = "command"
  /\ interaction.kind = "color"
  /\ interaction.rgb = <<51, 102, 204>>
  /\ SubSeq(commands[Len(commands)], 5, 13) = <<"%", "2", "3", "3", "3", "6", "6", "c", "c">>

\* C18: n interactions have sent exactly n requests: each interaction appends
\* one request that is outstanding from that step on, whatever is in flight,
\* and no other step adds, removes or changes a request.
C18_OneRequestPerInteraction ==
  /\ [](Len(commands) = interaction.n)
  /\ [][ /\ Interacts => SentOne /\ Len(commands') \in outstanding'
         /\ ~Interacts => commands' = commands
       ]_vars

\* C18 witness: the same command was sent twice in a row, the second while
\* the first and a list fetch were still in flight.
C18_Witness ==
  /\ lastEvent.type = "command"
  /\ Len(commands) = 2
  /\ commands[1] = commands[2]
  /\ outstanding = {1, 2}
  /\ inflight # {}

\* C19: neither the dispatch of a command nor its completion changes the
\* snapshot, the task (status, value, error, call id), the list fetches in
\* flight (none is added, removed or aborted), the poll timer or what is
\* rendered.
C19_CommandsLeaveStateAlone ==
  [][ lastEvent'.type \in {"command", "commandSettle"}
        => UNCHANGED <<deviceList, taskVars, timerVars, rendered, isConnected, updateState>>
    ]_vars

\* C19 witness: a command has just failed on the network while a list fetch
\* is in flight and the poll timer is armed.
C19_Witness ==
  /\ lastEvent.type = "commandSettle"
  /\ lastEvent.kind = "neterr"
  /\ inflight # {}
  /\ timer # 0
  /\ status = "PENDING"

\* C20: while the element is mounted a list fetch starts within one period
\* of the poll, and when a list fetch that is still the current run completes
\* with the answer of the backend, the rows rendered show the backend as it
\* was after every command it carried out before that fetch started, or a
\* later state of the backend.
C20_CommandEffectsReachTheRows ==
  /\ [](isConnected /\ updateState = "done"
          => \E i \in intervals : i.id = timer /\ now <= i.due /\ i.due <= now + PollIntervalMs)
  /\ [][ SettleStep /\ lastEvent'.key = callId
           => \A j \in 1..Len(serverHistory) :
                serverHistory[j].afterCall < lastEvent'.key
                  => \E m \in j..Len(serverHistory) : ShowsExactly(serverHistory[m].state)'
       ]_vars

\* C20 witness: the backend switched abc on after the first list fetch had
\* started; the rows showed abc off, and the fetch of the next tick has just
\* completed and the rows show abc on.
C20_Witness ==
  /\ lastEvent.type = "settle" /\ lastEvent.key = 2 /\ callId = 2
  /\ Len(serverHistory) = 1
  /\ serverHistory[1].afterCall = 1
  /\ serverHistory[1].state[1].state.on
  /\ prevGood = Some(<< Device("abc", StateOf(FALSE)), Device("def", NoState) >>)
  /\ rendered.kind = "table" /\ rendered.rows[1].id = "abc" /\ rendered.rows[1].checked

\* C21: while the fetch of the current run is unresolved the task is pending
\* and the last good snapshot, if any, is rendered (the placeholder if none);
\* no step but a timer tick ends that, a tick starts a new run, and when the
\* new run settles while the old fetch still hangs its result is applied.
C21_HungFetchOnlySuperseded ==
  /\ [](callId \in InFlightKeys
          => /\ status = "PENDING"
             /\ IF lastGood.defined THEN ShowsExactly(lastGood.v) ELSE rendered = Loading)
  /\ [][ (callId \in InFlightKeys /\ callId \in InFlightKeys')
           => ((callId' = callId /\ status' = "PENDING") \/ lastEvent'.type = "timer") ]_vars
  /\ [][ (lastEvent'.type = "timer" /\ intervals' # intervals)
           => (/\ callId' = callId + 1
               /\ status' = "PENDING"
               /\ \E f \in inflight' : f.key = callId' /\ ~f.aborted) ]_vars
  /\ [][ (SettleStep /\ lastEvent'.key = callId /\ (\E f \in inflight' : f.key < callId))
           => (/\ status' \in {"COMPLETE", "ERROR"}
               /\ (lastEvent'.kind = "response" /\ lastEvent'.http = 200)
                    => (/\ status' = "COMPLETE"
                        /\ deviceList' = value'
                        /\ ShowsExactly(value.v)')) ]_vars

\* C21 witness: the fetch of a run never resolved; the run the next tick
\* started has just completed and its devices are rendered.
C21_Witness ==
  /\ lastEvent.type = "settle" /\ lastEvent.key = callId
  /\ status = "COMPLETE"
  /\ \E f \in inflight : f.key = callId - 1 /\ f.aborted
  /\ rendered.kind = "table" /\ Len(rendered.rows) = 2

\* C22: an action on one dashboard element (mount, unmount, tick, fetch
\* completion, command) leaves the other element's timer and its interval,
\* task state, in-flight fetches, device list and output as they were.
C22_InstancesShareNoState ==
  [][ lastEvent'.type # "switch"
        => (/\ other'.timer = other.timer
            /\ other'.intervals = other.intervals
            /\ other'.isConnected = other.isConnected
            /\ other'.updateState = other.updateState
            /\ <<other'.status, other'.callId, other'.previousArgs, other'.value, other'.error>>
                 = <<other.status, other.callId, other.previousArgs, other.value, other.error>>
            /\ other'.inflight = other.inflight
            /\ other'.deviceList = other.deviceList
            /\ other'.rendered = other.rendered) ]_vars

\* C22 witness: one element has just been unmounted while the other is
\* mounted with its timer armed, a run pending and its fetch in flight.
C22_Witness ==
  /\ lastEvent.type = "disconnected" /\ ~isConnected /\ timer = 0 /\ callId > 0
  /\ other.isConnected /\ other.timer # 0
  /\ \E i \in other.intervals : i.id = other.timer
  /\ other.status = "PENDING"
  /\ \E f \in other.inflight : f.key = other.callId /\ ~f.aborted
  /\ other.deviceList.defined

\* C24: in a rendered table the power control of a row is checked exactly
\* when the device's state is present and on, and the control of a device
\* whose state is absent is rendered unchecked and disabled.
C24_PowerControlRendering ==
  (rendered.kind = "table" /\ deviceList.defined /\ Len(rendered.rows) = Len(deviceList.v))
    => \A i \in 1..Len(rendered.rows) :
         LET st == deviceList.v[i].state
             row == rendered.rows[i]
         IN /\ row.checked <=> (st.present /\ st.on)
            /\ ~st.present => (~row.checked /\ row.disabled)

\* C25: once the element has been unmounted it holds no device list.
C25_SnapshotDiscardedOnUnmount ==
  (~isConnected /\ updateState = "done") => ~deviceList.defined

\* C26: the time a label measures from changes only when the parent updates
\* the binding; a tick keeps it and shows the age against it, also after an
\* update gave a new time; an update of a label whose timer runs takes no
\* new handle and leaves the interval and its due time as they were.
C26_LabelTimeOnlyFromUpdate ==
  /\ [][ \A l \in DOMAIN labels :
           labels'[l].time # labels[l].time => lastEvent'.type = "labelUpdate" ]_vars
  /\ [][ lastEvent'.type = "labelTick"
           => \A l \in DOMAIN labels :
                /\ labels'[l].time = labels[l].time
                /\ labelHist'[l].ticks # labelHist[l].ticks
                     => labels'[l].shown = Some((now - labels[l].time.v) \div 1000) ]_vars
  /\ [][ lastEvent'.type = "labelUpdate"
           => \A l \in DOMAIN labels :
                (labels[l].created /\ labels[l].timer # 0)
                  => (/\ labels'[l].timer = labels[l].timer
                      /\ labelIntervals' = labelIntervals
                      /\ labelHandles' = labelHandles) ]_vars

\* C26 witness: a label created at 0 with time 0 was updated with time 1500
\* between two ticks, and the tick at 2000 shows the age against 1500.
C26_Witness ==
  /\ lastEvent.type = "labelTick" /\ now = 2000
  /\ labels[1].time = Some(1500)
  /\ labelHist[1].attachedAt = 0 /\ ~labelHist[1].reattached /\ labelHist[1].ticks = 2
  /\ labels[1].shown = Some(0)

\* C28: whatever the sequence of connectedCallback and disconnectedCallback,
\* the host holds at most one interval of the element, it is the one of the
\* handle in timer, it exists exactly when the last callback was a connect,
\* and no interval callback runs while the element is disconnected.
C28_AtMostOnePollTimer ==
  /\ [](/\ Cardinality(intervals) <= 1
        /\ \A i \in intervals : i.id = timer
        /\ isConnected <=> timer # 0
        /\ isConnected <=> intervals # {})
  /\ [][ lastEvent'.type = "connected" => (timer' # 0 /\ Cardinality(intervals') = 1) ]_vars
  /\ [][ lastEvent'.type = "disconnected" => (timer' = 0 /\ intervals' = {}) ]_vars
  /\ [][ ~isConnected => lastEvent'.type # "timer" ]_vars

\* C28 witness: connectedCallback has just run on a connected element; the
\* interval of the first connect is still the only one and keeps its due time.
C28_Witness ==
  /\ lastEvent.type = "connected" /\ lastEvent.kind = "repeat"
  /\ handles = 1 /\ timer = 1
  /\ intervals = { [id |-> 1, due |-> PollIntervalMs] }
  /\ now > 0

\* C29: whatever the sequence of update, disconnected and reconnected, a
\* label has at most one interval, the one of the handle it holds, and holds
\* a handle only while connected; an update of a label that is not connected
\* arms nothing, and disconnected() leaves the label without handle.
C29_AtMostOneLabelTimer ==
  /\ [](\A l \in DOMAIN labels :
          /\ Cardinality({ i \in labelIntervals : i.owner = l }) <= 1
          /\ \A i \in labelIntervals : i.owner = l => i.id = labels[l].timer
          /\ labels[l].timer # 0 => (labels[l].isConnected
                                      /\ \E i \in labelIntervals : i.id = labels[l].timer))
  /\ [][ lastEvent'.type = "labelUpdate"
           => \A l \in DOMAIN labels :
                ~labels'[l].isConnected
                  => (labels'[l].timer = 0 /\ labelIntervals' = labelIntervals
                      /\ labelHandles' = labelHandles) ]_vars
  /\ [][ \A l \in DOMAIN labels :
           (labels[l].isConnected /\ ~labels'[l].isConnected)
             => (labels'[l].timer = 0 /\ \A i \in labelIntervals' : i.owner # l) ]_vars

\* C29 witness: a label that ran a timer and was detached has just been
\* updated by its parent: it holds no handle and the host has no interval.
C29_Witness ==
  /\ lastEvent.type = "labelUpdate"
  /\ Detached(1) /\ labelHist[1].shownAt = now /\ labelHist[1].detachedAt < now
  /\ labelHandles >= 1
  /\ labels[1].timer = 0 /\ labelIntervals = {}

\* The list fetches that are live: started, not settled, signal not aborted.
LiveFetches == { f \in inflight : ~f.aborted }

\* C30: at most one list fetch is live at any time, and a timer tick that
\* finds a live fetch of the element leaves only the fetch it starts live.
C30_AtMostOneLiveFetch ==
  /\ [](Cardinality(LiveFetches) <= 1)
  /\ [][ (lastEvent'.type = "timer" /\ intervals' # intervals /\ LiveFetches # {})
           => (/\ LiveFetches' = { [key |-> callId', aborted |-> FALSE, orphaned |-> FALSE] }
               /\ \A f \in LiveFetches :
                    [f EXCEPT !.aborted = TRUE] \in inflight') ]_vars

\* C30 witness: three list fetches are outstanding after two ticks, and only
\* the one of the latest run is live.
C30_Witness ==
  /\ Cardinality(inflight) = 3
  /\ LiveFetches = { [key |-> callId, aborted |-> FALSE, orphaned |-> FALSE] }
  /\ callId = 3

\* The number a string of hex digits denotes.
HexNumber(digits) ==
  LET n[i \in 0..Len(digits)] == IF i = 0 THEN 0 ELSE n[i - 1] * 16 + HexValue(digits[i])
  IN n[Len(digits)]

\* C27: the value of the colour control of a row whose device has the colour
\* r, g, b is "#" and six lower-case hex digits that denote r * 65536 +
\* g * 256 + b and read back as r, g, b; without state it is "#000000".
C27_ColorValueIsPaddedHex ==
  (rendered.kind = "table" /\ deviceList.defined /\ Len(rendered.rows) = Len(deviceList.v))
    => \A i \in 1..Len(rendered.rows) :
         LET st == deviceList.v[i].state
             v == rendered.rows[i].color
         IN IF st.present
            THEN /\ Len(v) = 7 /\ v[1] = "#"
                 /\ \A k \in 2..7 : \E d \in 1..16 : LowerHex[d] = v[k]
                 /\ HexNumber(SubSeq(v, 2, 7))
                      = st.color[1] * 65536 + st.color[2] * 256 + st.color[3]
                 /\ ParseColor(v) = st.color
            ELSE v = <<"#", "0", "0", "0", "0", "0", "0">>

\* C27 witness: the colour 0, 10, 204 is rendered as #000acc, and the
\* control of the device without state as #000000.
C27_Witness ==
  /\ rendered.kind = "table" /\ Len(rendered.rows) = 2
  /\ deviceList.v[1].state.color = <<0, 10, 204>>
  /\ rendered.rows[1].color = <<"#", "0", "0", "0", "a", "c", "c">>
  /\ ~deviceList.v[2].state.present
  /\ rendered.rows[2].color = <<"#", "0", "0", "0", "0", "0", "0">>

\* The interval a label holds.
IntervalOf(l) == CHOOSE i \in labelIntervals : i.id = labels[l].timer

\* C23: a label that a step leaves attached keeps its timer through the
\* step, whatever the step is: the tick, removal or creation of another
\* label, a poll tick, a fetch completion.  It holds the same handle and the
\* interval of that handle is still due when it was, or one period after the
\* tick it has just fired.  A label that is not attached holds no timer, so
\* no step on another label starts one for it.
C23_LabelTimersIndependent ==
  /\ [](\A l \in DOMAIN labels :
          (labels[l].created /\ labels[l].isConnected)
            => (labels[l].timer # 0 /\ \E i \in labelIntervals : i.id = labels[l].timer /\ i.owner = l))
  /\ [](\A l \in DOMAIN labels :
          /\ Cardinality({ i \in labelIntervals : i.owner = l }) <= 1
          /\ ~(labels[l].created /\ labels[l].isConnected)
               => (labels[l].timer = 0 /\ \A i \in labelIntervals : i.owner # l))
  /\ [][ \A l \in DOMAIN labels :
           (/\ labels[l].created /\ labels[l].isConnected
            /\ labels'[l].created /\ labels'[l].isConnected)
             => (/\ labels'[l].timer = labels[l].timer
                 /\ \/ IntervalOf(l) \in labelIntervals'
                    \/ /\ lastEvent'.type = "labelTick"
                       /\ IntervalOf(l).due = now
                       /\ labelHist'[l].ticks = labelHist[l].ticks + 1
                       /\ [IntervalOf(l) EXCEPT !.due = now + LabelIntervalMs] \in labelIntervals') ]_vars

\* C23 witness: a fetch completion has just taken the state of the second
\* row away and removed its label, while the label of the first row, which
\* has ticked, still holds the first handle and its interval.
C23_Witness ==
  /\ lastEvent.type = "settle"
  /\ labels[1].created /\ labels[1].isConnected /\ labels[1].timer = 1
  /\ labelHist[1].ticks >= 1
  /\ \E i \in labelIntervals : i.id = 1 /\ i.owner = 1 /\ i.due >= now
  /\ ~labels[2].created /\ labelHandles >= 2
  /\ rendered.kind = "table" /\ Len(rendered.rows) = 2
  /\ \A i \in labelIntervals : i.owner = 1

\* C31: on a mounted dashboard the settling of the fetch of the run that no
\* later run() has superseded is applied: the task ends COMPLETE with the
\* body as value and its table rendered, or ERROR with the error held.  A
\* settling that leaves the task as it was is that of a fetch a later run()
\* superseded, and the task leaves PENDING by no other step, so while every
\* fetch outlasts the period the task stays pending.
C31_UnsupersededResultApplied ==
  /\ [][ (SettleStep /\ isConnected /\ lastEvent'.key = callId)
           => (/\ status = "PENDING"
               /\ lastEvent'.kind # "abort"
               /\ IF lastEvent'.kind = "response" /\ lastEvent'.http \in 200..299
                  THEN /\ status' = "COMPLETE"
                       /\ value'.defined /\ deviceList' = value'
                       /\ ShowsExactly(value.v)'
                  ELSE /\ status' = "ERROR"
                       /\ error'.defined) ]_vars
  /\ [][ (SettleStep /\ status' = status)
           => (lastEvent'.key < callId
               /\ \A f \in inflight \ inflight' : f.aborted) ]_vars
  /\ [][ (status = "PENDING" /\ status' # "PENDING")
           => (SettleStep /\ lastEvent'.key = callId
               /\ \A f \in inflight \ inflight' : ~f.aborted) ]_vars

\* C31 witness: the fetch of the second run has settled with a list before
\* the tick after it, on a dashboard mounted all along, and is rendered.
C31_Witness ==
  /\ lastEvent.type = "settle" /\ lastEvent.key = callId /\ callId = 2
  /\ isConnected /\ handles = 1 /\ now < 2 * PollIntervalMs
  /\ status = "COMPLETE" /\ inflight = {}
  /\ rendered.kind = "table" /\ Len(rendered.rows) = 1

\* C32: the held deviceList changes only in a step that renders with the
\* task complete, and is then that run's value; a step that ends with the
\* task pending or in error, a timer tick, a command, a connect and a
\* disconnect leave it as it was; once defined it stays defined.
C32_DeviceListWrittenOnlyWhenComplete ==
  /\ [](status = "COMPLETE" => deviceList = value)
  /\ [][ deviceList' # deviceList
           => (/\ status' = "COMPLETE"
               /\ deviceList' = value'
               /\ lastEvent'.type \in {"settle", "firstUpdate", "requestUpdate"}) ]_vars
  /\ [][ (\/ status' \in {"INITIAL", "PENDING", "ERROR"}
          \/ lastEvent'.type \in {"timer", "command", "connected", "disconnected"})
           => deviceList' = deviceList ]_vars
  /\ [][ deviceList.defined => deviceList'.defined ]_vars

\* C32 witness: the element has just re-rendered in the error state, blank,
\* and still holds the two devices of the last complete run.
C32_Witness ==
  /\ lastEvent.type = "requestUpdate" /\ status = "ERROR"
  /\ rendered = Blank
  /\ deviceList.defined /\ deviceList = Some(lastGood.v) /\ Len(deviceList.v) = 2

\* C33: the timer tick that finds the task in error after some run succeeded
\* puts it in pending and the table of the last successful snapshot is
\* rendered again; when the run after failures succeeds its snapshot is
\* rendered, no error is held and nothing is blank.
C33_FailedPollIsTransient ==
  /\ [][ (lastEvent'.type = "timer" /\ status = "ERROR" /\ lastGood.defined)
           => (/\ rendered = Blank
               /\ status' = "PENDING"
               /\ lastGood' = lastGood
               /\ ShowsExactly(lastGood.v)') ]_vars
  /\ [][ (SettleStep /\ lastEvent'.key = callId /\ failures >= 1
          /\ lastEvent'.kind = "response" /\ lastEvent'.http = 200)
           => (/\ status' = "COMPLETE"
               /\ ~error'.defined
               /\ failures' = 0
               /\ deviceList' = lastGood'
               /\ ShowsExactly(lastGood.v)') ]_vars
  /\ [](status = "COMPLETE" => (~error.defined /\ rendered.kind = "table"))

\* C33 witness: the tick after a failed run has put the task in pending and
\* the two devices of the last successful run are on show again.
C33_Witness ==
  /\ lastEvent.type = "timer" /\ status = "PENDING"
  /\ failures = 1 /\ error.defined
  /\ lastGood.defined /\ Len(lastGood.v) = 2 /\ ShowsExactly(lastGood.v)
  /\ isConnected

\* The rows of the rendered output that hold a timeAgo binding.
RowsWithState == { l \in DOMAIN labels : HasBinding(rendered, l) }

\* C34: the armed label timers are exactly those of the rows of the rendered
\* output whose state is present while the dashboard is mounted, one each,
\* and there is none while it is unmounted; the step that takes a row or
\* its state away leaves that row's label without timer and without interval.
C34_LabelTimersDoNotLeak ==
  /\ [](/\ Cardinality(labelIntervals)
           = IF isConnected THEN Cardinality(RowsWithState) ELSE 0
        /\ { i.owner : i \in labelIntervals } = IF isConnected THEN RowsWithState ELSE {}
        /\ \A i \in labelIntervals : labels[i.owner].timer = i.id
        /\ \A l \in DOMAIN labels : labels[l].timer # 0 => \E i \in labelIntervals : i.owner = l
        /\ rendered.kind = "table" => Len(rendered.rows) <= Cardinality(DOMAIN labels))
  /\ [][ \A l \in DOMAIN labels :
           (HasBinding(rendered, l) /\ ~HasBinding(rendered', l))
             => (/\ labels'[l].timer = 0
                 /\ \A i \in labelIntervals' : i.owner # l /\ i.id # labels[l].timer) ]_vars

\* C34 witness: after two polls on a mounted dashboard the second row, whose
\* label had a timer, is gone from the rendered list, and the one interval
\* left is that of the first row.
C34_Witness ==
  /\ lastEvent.type = "settle" /\ callId >= 2 /\ isConnected
  /\ rendered.kind = "table" /\ Len(rendered.rows) = 1
  /\ RowsWithState = {1}
  /\ labelHandles >= 2
  /\ Cardinality(labelIntervals) = 1
  /\ ~labels[2].created

====
